---- MODULE Spec2Model ----
(***************************************************************************)
(* A model of bin/storyblok-translate-slugs.mjs: a sequential command-line *)
(* run that resolves its configuration, lists and fetches the stories of a *)
(* Storyblok space, translates slug and name of each story per locale with *)
(* DeepL and writes the stories back.                                      *)
(*                                                                         *)
(* JavaScript values that the script tests for truthiness are encoded as   *)
(* tagged strings ("str:abc", "num:0", "bool:true"), so that the number 0, *)
(* the empty string and a missing key stay distinguishable.                *)
(*                                                                         *)
(* --verbose only adds console output; it is no part of the state. The     *)
(* variables calls and billed are history variables: they record the API   *)
(* calls the run has issued and never influence a step.                    *)
(***************************************************************************)
EXTENDS Integers, Sequences, FiniteSets, TLC

\* ---------------------------------------------------------------- bounds
\* Longest story list the management API returns in a run.
MaxStories == 2
\* Largest billedCharacters value one DeepL call reports.
MaxBilled == 2

\* ------------------------------------------------------- JavaScript values
Undefined == "<undefined>"
Null == "<null>"
\* A const whose declaration the run has not reached yet.
Unset == "<unset>"

Truthy(v) == v \notin {Undefined, Null, "num:0", "str:", "bool:false"}

\* a || b
Or(a, b) == IF Truthy(a) THEN a ELSE b

\* 'key' in args, for a key whose parsed value is v
In(v) == v # Undefined

Regions == {"str:eu", "str:us", "str:ap", "str:ca", "str:cn"}

\* String.prototype.split(',') on a text given as a sequence of tokens, the
\* separator being the token ",".
RECURSIVE SplitAcc(_, _, _)
SplitAcc(s, cur, acc) ==
  IF s = <<>> THEN Append(acc, cur)
  ELSE IF Head(s) = "," THEN SplitAcc(Tail(s), "", Append(acc, cur))
  ELSE SplitAcc(Tail(s), cur \o Head(s), acc)

Split(s) == SplitAcc(s, "", <<>>)

\* args[x] ? args[x].split(',') : dflt   (a missing flag and the empty string
\* are both falsy; both are the empty token sequence here)
ListOption(raw, dflt) == IF raw # <<>> THEN Split(raw) ELSE dflt

\* ------------------------------------------------------ external services
\* Languages DeepL may report as the detected source language.
DetectLangs == {"EN", "DE"}

\* The text DeepL returns for (text, targetLang).
TranslateText(text, lang) ==
  CASE text \in {"about-us", "About Us"} /\ lang = "de" -> "Ueber uns"
    [] text \in {"about-us", "About Us"} /\ lang = "fr" -> "A propos"
    [] text \in {"home", "Home"} /\ lang = "de" -> "Startseite"
    [] text \in {"home", "Home"} /\ lang = "fr" -> "Accueil"
    [] text \in {"blog", "Blog"} /\ lang = "fr" -> "Blogue"
    [] OTHER -> text

\* @sindresorhus/slugify on the texts above.
slugify(t) ==
  CASE t = "Ueber uns" -> "ueber-uns"
    [] t = "A propos" -> "a-propos"
    [] t = "Startseite" -> "startseite"
    [] t = "Accueil" -> "accueil"
    [] t = "Blogue" -> "blogue"
    [] t = "Blog" -> "blog"
    [] t = "Home" -> "home"
    [] t = "About Us" -> "about-us"
    [] OTHER -> t

\* ------------------------------------------------------------------ state
VARIABLES
  args,                  \* minimist's parse of the command line
  env,                   \* process.env after dotenvx
  cms,                   \* the space as the management API serves it
  pc,                    \* position of the script
  exitCode,              \* process.exit's argument, -1 while running
  message,               \* the last Error/summary line printed
  oauthToken, spaceId, region, deeplApiKey,
  sourceLang, contentTypes, locales, skipStories, onlyStories,
  detectedSourceLang, totalBilledCharacters,
  lastDetected,          \* translationResult.detectedSourceLang of the last call
  storyList, k,          \* the listed stories and the fetch loop's position
  stories, i, j,         \* the fetched stories and the two loop indices
  translatedSlug,        \* the slug translated for (i, j), before the name
  calls,                 \* history: every API call issued, in order
  billed,                \* history: billed -> number of DeepL calls that reported it
  printedTotal           \* the total the summary line printed, -1 before

vars == <<args, env, cms, pc, exitCode, message, oauthToken, spaceId, region,
          deeplApiKey, sourceLang, contentTypes, locales, skipStories,
          onlyStories, detectedSourceLang, totalBilledCharacters, lastDetected,
          storyList, k, stories, i, j, translatedSlug, calls, billed, printedTotal>>

cfgVars == <<oauthToken, spaceId, region, deeplApiKey, sourceLang, contentTypes,
             locales, skipStories, onlyStories>>
loopVars == <<storyList, k, stories, i, j, translatedSlug>>
deeplVars == <<detectedSourceLang, totalBilledCharacters, lastDetected, billed>>

\* ------------------------------------------------------------- the inputs
StorySlug(n) == CASE n = 1 -> "home" [] n = 2 -> "about-us" [] OTHER -> "blog"
StoryName(n) == CASE n = 1 -> "Home" [] n = 2 -> "About Us" [] OTHER -> "Blog"

\* A story record of the management API. has_localized_paths and
\* has_translated_slugs_attributes say whether the record carries the key.
Story(n, folder, ctype, hasLp, lp, hasTsa, tsa) ==
  [id |-> n, is_folder |-> folder, content_type |-> ctype,
   full_slug |-> StorySlug(n), slug |-> StorySlug(n), name |-> StoryName(n),
   has_localized_paths |-> hasLp, localized_paths |-> lp,
   has_translated_slugs_attributes |-> hasTsa,
   translated_slugs_attributes |-> tsa]

Path(l, p) == [lang |-> l, published |-> p]

\* localized_paths lists: one item per language at most, as the API serves them.
PathLists ==
  {<<>>}
  \cup {<<Path("de", p)>> : p \in BOOLEAN}
  \cup {<<Path("fr", TRUE)>>}
  \cup {<<Path("de", p), Path("fr", TRUE)>> : p \in BOOLEAN}

OldEntry == [lang |-> "de", slug |-> "alt", name |-> "Alt"]

\* Every shape of a page record: with or without localized_paths, with or
\* without a translated_slugs_attributes list already on it.
PageShapes(n) ==
  {Story(n, FALSE, "page", TRUE, lp, FALSE, <<>>) : lp \in PathLists}
  \cup {Story(n, FALSE, "page", TRUE, lp, TRUE, <<OldEntry>>) : lp \in PathLists}
  \cup {Story(n, FALSE, "page", TRUE, <<Path("de", TRUE)>>, TRUE, <<>>),
        Story(n, FALSE, "page", FALSE, <<>>, FALSE, <<>>),
        Story(n, FALSE, "page", FALSE, <<>>, TRUE, <<>>)}

\* The shapes used in spaces of several stories.
CoreShapes(n) ==
  {Story(n, FALSE, "page", TRUE, <<>>, FALSE, <<>>),
   Story(n, FALSE, "page", TRUE, <<Path("de", TRUE), Path("fr", TRUE)>>, TRUE, <<OldEntry>>),
   Story(n, FALSE, "page", FALSE, <<>>, FALSE, <<>>)}

\* The summaries the list endpoint may return for story n.
ListShapes(n) ==
  {Story(n, f, t, TRUE, <<Path("de", TRUE)>>, FALSE, <<>>) :
     f \in BOOLEAN, t \in {"page", "post"}}

\* Story lists of n stories, story m drawn from shapes[m].
StoryLists(n, shapes) ==
  {l \in [1..n -> UNION {shapes[m] : m \in 1..n}] : \A m \in 1..n : l[m] \in shapes[m]}

DefaultArgs ==
  [help |-> FALSE, token |-> "str:tok", space |-> "num:12345",
   region |-> Undefined, deeplApiKey |-> "str:key", sourceLang |-> Undefined,
   contentTypes |-> <<>>, locales |-> <<"de">>, skipStories |-> <<>>,
   onlyStories |-> <<>>, overwrite |-> FALSE, publish |-> FALSE,
   dryRun |-> FALSE]

NoEnv ==
  [STORYBLOK_OAUTH_TOKEN |-> Undefined, STORYBLOK_SPACE_ID |-> Undefined,
   STORYBLOK_REGION |-> Undefined, DEEPL_API_KEY |-> Undefined]

Running ==
  /\ pc = "help"
  /\ exitCode = -1
  /\ message = "none"
  /\ oauthToken = Unset /\ spaceId = Unset /\ region = Unset
  /\ deeplApiKey = Unset /\ sourceLang = Unset
  /\ contentTypes = <<>> /\ locales = <<>>
  /\ skipStories = <<>> /\ onlyStories = <<>>
  /\ detectedSourceLang = Null
  /\ lastDetected = Null
  /\ totalBilledCharacters = 0
  /\ storyList = <<>> /\ k = 1
  /\ stories = <<>> /\ i = 1 /\ j = 1
  /\ translatedSlug = ""
  /\ calls = <<>>
  /\ billed = [b \in 1..MaxBilled |-> 0]
  /\ printedTotal = -1

\* Command lines and environments over the four options with a fallback.
InitConfig ==
  /\ \E h \in BOOLEAN,
        t \in {Undefined, "str:", "str:tok", "bool:true"},
        s \in {Undefined, "num:0", "num:12345"},
        r \in {Undefined, "str:", "str:us", "str:xx"},
        d \in {Undefined, "str:", "str:key"} :
       args = [DefaultArgs EXCEPT !.help = h, !.token = t, !.space = s,
                                  !.region = r, !.deeplApiKey = d]
  /\ \E t \in {Undefined, "str:envtok"},
        s \in {Undefined, "str:67890"},
        r \in {Undefined, "str:ap", "str:yy"},
        d \in {Undefined, "str:envkey"} :
       env = [STORYBLOK_OAUTH_TOKEN |-> t, STORYBLOK_SPACE_ID |-> s,
              STORYBLOK_REGION |-> r, DEEPL_API_KEY |-> d]
  /\ cms = [languages |-> <<"de">>,
            stories |-> <<Story(1, FALSE, "page", TRUE, <<Path("de", TRUE)>>, FALSE, <<>>)>>]
  /\ Running

\* Story lists and the three selection options.
InitFetch ==
  /\ \E ct \in {<<>>, <<"post">>, <<"page", ",", "post">>},
        sk \in {<<>>, <<"home">>, <<"home", ",", "about-us">>},
        on \in {<<>>, <<"about-us">>, <<"home", ",", "about-us">>} :
       args = [DefaultArgs EXCEPT !.contentTypes = ct, !.skipStories = sk,
                                  !.onlyStories = on]
  /\ env = NoEnv
  /\ \E n \in 0..MaxStories : \E l \in StoryLists(n, [m \in 1..n |-> ListShapes(m)]) :
       cms = [languages |-> <<"de">>, stories |-> l]
  /\ Running

RunArgs(ls) ==
  {[DefaultArgs EXCEPT !.sourceLang = sl, !.locales = l, !.overwrite = o,
                       !.publish = p, !.dryRun = d] :
     sl \in {Undefined, "str:en"}, l \in ls, o \in BOOLEAN, p \in BOOLEAN,
     d \in BOOLEAN}

\* One story of any shape, under every mode and locale list.
InitOne ==
  /\ args \in RunArgs({<<>>, <<"de">>, <<"de", ",", "fr">>, <<"fr", ",", "de">>})
  /\ env = NoEnv
  /\ \E ls \in {<<>>, <<"de", "fr">>} : \E s \in PageShapes(1) :
       cms = [languages |-> ls, stories |-> <<s>>]
  /\ Running

\* Several stories, under every mode.
InitMany ==
  /\ args \in RunArgs({<<"de", ",", "fr">>})
  /\ env = NoEnv
  /\ \E n \in 2..MaxStories : \E l \in StoryLists(n, [m \in 1..n |-> CoreShapes(m)]) :
       cms = [languages |-> <<"de", "fr">>, stories |-> l]
  /\ Running

Init == InitConfig \/ InitFetch \/ InitOne \/ InitMany

\* ------------------------------------------------------------ operations
\* One API call, as the history keeps it. story is <<>> or <<the record sent>>.
Call(op, id, lang, what, story, publish) ==
  [op |-> op, id |-> id, lang |-> lang, what |-> what, story |-> story,
   publish |-> publish]

Includes(seq, x) == \E n \in 1..Len(seq) : seq[n] = x

Exit(code, msg) ==
  /\ pc' = "exit"
  /\ exitCode' = code
  /\ message' = msg

\* if ('help' in args) { ...; process.exit(0) }
Help ==
  /\ pc = "help"
  /\ IF args.help THEN Exit(0, "usage") ELSE pc' = "token" /\ UNCHANGED <<exitCode, message>>
  /\ UNCHANGED <<args, env, cms, cfgVars, loopVars, deeplVars, calls, printedTotal>>

\* !('x' in args) && !process.env.X
Missing(flag, envValue) == ~In(flag) /\ ~Truthy(envValue)

\* args.x || process.env.X
Effective(flag, envValue) == Or(flag, envValue)

ResolveToken ==
  /\ pc = "token"
  /\ IF Missing(args.token, env.STORYBLOK_OAUTH_TOKEN)
       THEN Exit(1, "token") /\ UNCHANGED oauthToken
       ELSE /\ oauthToken' = Effective(args.token, env.STORYBLOK_OAUTH_TOKEN)
            /\ pc' = "space"
            /\ UNCHANGED <<exitCode, message>>
  /\ UNCHANGED <<args, env, cms, spaceId, region, deeplApiKey, sourceLang,
                 contentTypes, locales, skipStories, onlyStories, loopVars,
                 deeplVars, calls, printedTotal>>

ResolveSpace ==
  /\ pc = "space"
  /\ IF Missing(args.space, env.STORYBLOK_SPACE_ID)
       THEN Exit(1, "space") /\ UNCHANGED spaceId
       ELSE /\ spaceId' = Effective(args.space, env.STORYBLOK_SPACE_ID)
            /\ pc' = "region"
            /\ UNCHANGED <<exitCode, message>>
  /\ UNCHANGED <<args, env, cms, oauthToken, region, deeplApiKey, sourceLang,
                 contentTypes, locales, skipStories, onlyStories, loopVars,
                 deeplVars, calls, printedTotal>>

\* let region = 'eu'; if ('region' in args || env) { region = args.region || env }
RegionOf(flag, envValue) ==
  IF In(flag) \/ Truthy(envValue) THEN Effective(flag, envValue) ELSE "str:eu"

ResolveRegion ==
  /\ pc = "region"
  /\ region' = RegionOf(args.region, env.STORYBLOK_REGION)
  /\ IF region' \notin Regions
       THEN Exit(1, "region")
       ELSE pc' = "deepl" /\ UNCHANGED <<exitCode, message>>
  /\ UNCHANGED <<args, env, cms, oauthToken, spaceId, deeplApiKey, sourceLang,
                 contentTypes, locales, skipStories, onlyStories, loopVars,
                 deeplVars, calls, printedTotal>>

ResolveDeeplKey ==
  /\ pc = "deepl"
  /\ IF Missing(args.deeplApiKey, env.DEEPL_API_KEY)
       THEN Exit(1, "deepl") /\ UNCHANGED deeplApiKey
       ELSE /\ deeplApiKey' = Effective(args.deeplApiKey, env.DEEPL_API_KEY)
            /\ pc' = "options"
            /\ UNCHANGED <<exitCode, message>>
  /\ UNCHANGED <<args, env, cms, oauthToken, spaceId, region, sourceLang,
                 contentTypes, locales, skipStories, onlyStories, loopVars,
                 deeplVars, calls, printedTotal>>

\* sourceLang, contentTypes, locales, skipStories, onlyStories; the two API
\* clients are constructed here, which issues no call.
ParseOptions ==
  /\ pc = "options"
  /\ sourceLang' = Or(args.sourceLang, Null)
  /\ contentTypes' = ListOption(args.contentTypes, <<"page">>)
  /\ locales' = ListOption(args.locales, <<>>)
  /\ skipStories' = ListOption(args.skipStories, <<>>)
  /\ onlyStories' = ListOption(args.onlyStories, <<>>)
  /\ pc' = "space_info"
  /\ UNCHANGED <<args, env, cms, exitCode, message, oauthToken, spaceId, region,
                 deeplApiKey, loopVars, deeplVars, calls, printedTotal>>

\* if (locales.length === 0) { GET spaces/<id>/; push every language code }
FetchSpaceLocales ==
  /\ pc = "space_info"
  /\ IF Len(locales) = 0
       THEN /\ calls' = Append(calls, Call("get_space", 0, "", "", <<>>, FALSE))
            /\ locales' = cms.languages
       ELSE UNCHANGED <<calls, locales>>
  /\ pc' = "list"
  /\ UNCHANGED <<args, env, cms, exitCode, message, oauthToken, spaceId, region,
                 deeplApiKey, sourceLang, contentTypes, skipStories, onlyStories,
                 loopVars, deeplVars, printedTotal>>

\* const storyList = await StoryblokMAPI.getAll(`spaces/${spaceId}/stories`)
FetchStoryList ==
  /\ pc = "list"
  /\ calls' = Append(calls, Call("get_all", 0, "", "", <<>>, FALSE))
  /\ storyList' = cms.stories
  /\ k' = 1
  /\ pc' = "fetch"
  /\ UNCHANGED <<args, env, cms, exitCode, message, cfgVars, stories, i, j,
                 translatedSlug, deeplVars, printedTotal>>

\* The condition of the fetch loop.
SelectedNoSkip(story, types, skip, only) ==
  /\ ~story.is_folder
  /\ Includes(types, story.content_type)
  /\ (IF Len(only) > 0 THEN Includes(only, story.full_slug) ELSE TRUE)

Selected(story, types, skip, only) ==
  /\ ~story.is_folder
  /\ Includes(types, story.content_type)
  /\ ~Includes(skip, story.full_slug)
  /\ (IF Len(only) > 0 THEN Includes(only, story.full_slug) ELSE TRUE)

\* One iteration of: for (const story of storyList)
FetchStory ==
  /\ pc = "fetch"
  /\ k <= Len(storyList)
  /\ IF Selected(storyList[k], contentTypes, skipStories, onlyStories)
       THEN /\ calls' = Append(calls, Call("get_story", storyList[k].id, "", "", <<>>, FALSE))
            /\ stories' = Append(stories, cms.stories[storyList[k].id])
       ELSE UNCHANGED <<calls, stories>>
  /\ k' = k + 1
  /\ UNCHANGED <<args, env, cms, pc, exitCode, message, cfgVars, storyList, i, j,
                 translatedSlug, deeplVars, printedTotal>>

\* The fetch loop ends; the processing loop starts at the first story.
StartProcessing ==
  /\ pc = "fetch"
  /\ k > Len(storyList)
  /\ pc' = "locale"
  /\ i' = 1
  /\ j' = 1
  /\ UNCHANGED <<args, env, cms, exitCode, message, cfgVars, storyList, k,
                 stories, translatedSlug, deeplVars, calls, printedTotal>>

\* story.localized_paths.find((item) => item.lang === locale), <<>> for undefined
ExistingTranslation(story, locale) ==
  LET hits == {n \in 1..Len(story.localized_paths) :
                 story.localized_paths[n].lang = locale}
  IN IF hits = {} THEN <<>>
     ELSE <<story.localized_paths[CHOOSE n \in hits : \A m \in hits : n <= m]>>

SkipsUnpublished(story, locale, overwrite) ==
  ExistingTranslation(story, locale) # <<>> /\ ~overwrite

\* existingTranslation && existingTranslation.published && !args.overwrite
SkipLocale(story, locale, overwrite) ==
  LET e == ExistingTranslation(story, locale)
  IN e # <<>> /\ e[1].published /\ ~overwrite

LacksNothing(story) == FALSE

\* !('localized_paths' in story)
LacksLocalizedPaths(story) == ~story.has_localized_paths

\* The head of the locale loop's body: the localized_paths check and the skip.
CheckLocale ==
  /\ pc = "locale"
  /\ i <= Len(stories)
  /\ j <= Len(locales)
  /\ IF LacksLocalizedPaths(stories[i])
       THEN Exit(1, "localized_paths") /\ UNCHANGED j
       ELSE /\ UNCHANGED <<exitCode, message>>
            /\ IF SkipLocale(stories[i], locales[j], args.overwrite)
                 THEN j' = j + 1 /\ UNCHANGED pc
                 ELSE pc' = "slug" /\ UNCHANGED j
  /\ UNCHANGED <<args, env, cms, cfgVars, storyList, k, stories, i,
                 translatedSlug, deeplVars, calls, printedTotal>>

SetBilled(total, b) == b

\* totalBilledCharacters += translationResult.billedCharacters
AddBilled(total, b) == total + b

MismatchInverted(sl, dsl, det) == sl = Null /\ Truthy(dsl) /\ det = dsl

\* The branch of translate() that ends the run.
Mismatch(sl, dsl, det) == sl = Null /\ Truthy(dsl) /\ det # dsl

\* detectedSourceLang after translate()
Detected(sl, dsl, det) == IF sl = Null /\ ~Truthy(dsl) THEN det ELSE dsl

\* translate(text, targetLang) up to its return or exit: the call, the billed
\* characters and the check of the detected source language.
Translate(what, b, det) ==
  /\ calls' = Append(calls, Call("translate", stories[i].id, locales[j], what, <<>>, FALSE))
  /\ billed' = [billed EXCEPT ![b] = @ + 1]
  /\ totalBilledCharacters' = AddBilled(totalBilledCharacters, b)
  /\ detectedSourceLang' = Detected(sourceLang, detectedSourceLang, det)
  /\ lastDetected' = det

\* const translatedSlug = slugify(await translate(story.slug, locale))
TranslateSlug ==
  /\ pc = "slug"
  /\ \E b \in 1..MaxBilled, det \in DetectLangs :
       /\ Translate("slug", b, det)
       /\ IF Mismatch(sourceLang, detectedSourceLang, det)
            THEN Exit(1, "source_lang") /\ UNCHANGED translatedSlug
            ELSE /\ translatedSlug' = slugify(TranslateText(stories[i].slug, locales[j]))
                 /\ pc' = "name"
                 /\ UNCHANGED <<exitCode, message>>
  /\ UNCHANGED <<args, env, cms, cfgVars, storyList, k, stories, i, j, printedTotal>>

\* story.translated_slugs_attributes.push(...), the list created if absent
Push(story, entry) ==
  [story EXCEPT !.has_translated_slugs_attributes = TRUE,
                !.translated_slugs_attributes = Append(@, entry)]

\* const translatedName = await translate(story.name, locale); the push; j++
TranslateName ==
  /\ pc = "name"
  /\ \E b \in 1..MaxBilled, det \in DetectLangs :
       /\ Translate("name", b, det)
       /\ IF Mismatch(sourceLang, detectedSourceLang, det)
            THEN Exit(1, "source_lang") /\ UNCHANGED <<stories, j>>
            ELSE /\ stories' = [stories EXCEPT ![i] =
                       Push(@, [lang |-> locales[j], slug |-> translatedSlug,
                                name |-> TranslateText(stories[i].name, locales[j])])]
                 /\ j' = j + 1
                 /\ pc' = "locale"
                 /\ UNCHANGED <<exitCode, message>>
  /\ UNCHANGED <<args, env, cms, cfgVars, storyList, k, i, translatedSlug, printedTotal>>

WritesInDryRun(story, dryRun) == story.has_translated_slugs_attributes

\* After the locale loop: 'translated_slugs_attributes' in story, and not dry-run
Writes(story, dryRun) == story.has_translated_slugs_attributes /\ ~dryRun

PublishAlways(publish) == TRUE

\* ...(args.publish ? { publish: 1 } : {})
PublishMarker(publish) == publish

\* The end of one story: the write, or none; then the next story.
WriteStory ==
  /\ pc = "locale"
  /\ i <= Len(stories)
  /\ j > Len(locales)
  /\ IF Writes(stories[i], args.dryRun)
       THEN calls' = Append(calls, Call("put", stories[i].id, "", "", <<stories[i]>>,
                                        PublishMarker(args.publish)))
       ELSE UNCHANGED calls
  /\ i' = i + 1
  /\ j' = 1
  /\ UNCHANGED <<args, env, cms, pc, exitCode, message, cfgVars, storyList, k,
                 stories, translatedSlug, deeplVars, printedTotal>>

\* The summary and process.exit(0)
Finish ==
  /\ pc = "locale"
  /\ i > Len(stories)
  /\ printedTotal' = totalBilledCharacters
  /\ Exit(0, "finished")
  /\ UNCHANGED <<args, env, cms, cfgVars, loopVars, deeplVars, calls>>

Next ==
  \/ Help
  \/ ResolveToken
  \/ ResolveSpace
  \/ ResolveRegion
  \/ ResolveDeeplKey
  \/ ParseOptions
  \/ FetchSpaceLocales
  \/ FetchStoryList
  \/ FetchStory
  \/ StartProcessing
  \/ CheckLocale
  \/ TranslateSlug
  \/ TranslateName
  \/ WriteStory
  \/ Finish

Spec == Init /\ [][Next]_vars

\* ----------------------------------------------------------- the history
CallsAt(op) == {n \in 1..Len(calls) : calls[n].op = op}

\* The record of story idx of `stories` as the API served it.
Fetched(idx) == cms.stories[stories[idx].id]

\* The entries the run has appended to story idx.
Appended(idx) ==
  SubSeq(stories[idx].translated_slugs_attributes,
         Len(Fetched(idx).translated_slugs_attributes) + 1,
         Len(stories[idx].translated_slugs_attributes))

RECURSIVE BilledUpTo(_)
\* The sum of the billed characters of the calls that reported at most n.
BilledUpTo(n) == IF n = 0 THEN 0 ELSE n * billed[n] + BilledUpTo(n - 1)

RECURSIVE ReturnedUpTo(_)
ReturnedUpTo(n) == IF n = 0 THEN 0 ELSE billed[n] + ReturnedUpTo(n - 1)

\* The elements of a comma-separated option, as a set.
Listed(raw) == {raw[n] : n \in 1..Len(raw)} \ {","}

\* ------------------------------------------------------------- the claims

\* C1: in a dry run no write (PUT) is ever issued, whatever was translated.
C1_DryRunNeverWrites ==
  args.dryRun => CallsAt("put") = {}

\* C1 witness: a dry run that finished after translating a story it would
\* otherwise have written.
C1_Witness ==
  /\ args.dryRun
  /\ pc = "exit" /\ message = "finished"
  /\ CallsAt("translate") # {}
  /\ \E idx \in 1..Len(stories) : Len(Appended(idx)) > 0

\* C4: the billed-character total equals the sum of the billed characters of
\* every DeepL call that has returned, the one that aborts the run included,
\* and the summary prints that sum.
C4_BilledTotalIsSum ==
  /\ ReturnedUpTo(MaxBilled) = Cardinality(CallsAt("translate"))
  /\ totalBilledCharacters = BilledUpTo(MaxBilled)
  /\ (pc = "exit" /\ message = "finished") => printedTotal = BilledUpTo(MaxBilled)
  /\ printedTotal # -1 => (pc = "exit" /\ message = "finished")

\* C4 witness: the run was aborted by the call that detected another source
\* language, and that call's characters are in the total.
C4_Witness ==
  /\ message = "source_lang"
  /\ Cardinality(CallsAt("translate")) >= 3
  /\ totalBilledCharacters > Cardinality(CallsAt("translate"))

\* C5: for each of the four options with an environment fallback, a flag that
\* is present gives the effective value, whatever its value and whatever the
\* environment holds (read for the runs in which the environment variable is
\* set, where the two sources compete).
C5_FlagWins ==
  /\ (oauthToken # Unset /\ In(args.token) /\ In(env.STORYBLOK_OAUTH_TOKEN))
       => oauthToken = args.token
  /\ (spaceId # Unset /\ In(args.space) /\ In(env.STORYBLOK_SPACE_ID))
       => spaceId = args.space
  /\ (region # Unset /\ In(args.region) /\ In(env.STORYBLOK_REGION))
       => region = args.region
  /\ (deeplApiKey # Unset /\ In(args.deeplApiKey) /\ In(env.DEEPL_API_KEY))
       => deeplApiKey = args.deeplApiKey

\* A required option with neither a flag nor an environment value, or a region
\* outside the allow-list.
UsageError ==
  \/ ~In(args.token) /\ env.STORYBLOK_OAUTH_TOKEN = Undefined
  \/ ~In(args.space) /\ env.STORYBLOK_SPACE_ID = Undefined
  \/ ~In(args.deeplApiKey) /\ env.DEEPL_API_KEY = Undefined
  \/ (IF In(args.region) THEN args.region
      ELSE IF env.STORYBLOK_REGION # Undefined THEN env.STORYBLOK_REGION
      ELSE "str:eu") \notin Regions

\* C6: (runs without --help) a usage error ends the run with exit code 1 before
\* any API call, and a run that has issued an API call has a value for the
\* token, the space id and the DeepL key and a region of the allow-list.
C6_UsageErrorsBeforeCalls ==
  ~args.help =>
    /\ (pc = "exit" /\ message \in {"token", "space", "region", "deepl"}) =>
         (exitCode = 1 /\ calls = <<>>)
    /\ UsageError => (calls = <<>> /\ (pc = "exit" => exitCode = 1))
    /\ calls # <<>> =>
         /\ oauthToken \notin {Unset, Undefined}
         /\ spaceId \notin {Unset, Undefined}
         /\ deeplApiKey \notin {Unset, Undefined}
         /\ region \in Regions

\* The selection the options ask for.
Wanted(s) ==
  /\ ~s.is_folder
  /\ s.content_type \in (IF args.contentTypes = <<>> THEN {"page"}
                         ELSE Listed(args.contentTypes))
  /\ s.full_slug \notin Listed(args.skipStories)
  /\ (Listed(args.onlyStories) # {} => s.full_slug \in Listed(args.onlyStories))

Ids(seq) == [n \in 1..Len(seq) |-> seq[n].id]

\* C7: the stories fetched and processed are the listed stories that are no
\* folder, of a configured content type, not in the skip-list and, with a
\* non-empty only-list, in it; one record is fetched per selected story and for
\* no other, and stories are processed in the order of the list.
C7_Selection ==
  LET done == SubSeq(storyList, 1, k - 1)
      gets == SelectSeq(calls, LAMBDA c : c.op = "get_story")
      work == SelectSeq(calls, LAMBDA c : c.op \in {"translate", "put"})
  IN /\ Ids(stories) = Ids(SelectSeq(done, Wanted))
     /\ Ids(gets) = Ids(stories)
     /\ pc \in {"locale", "slug", "name"} => k = Len(storyList) + 1
     /\ \A n \in 1..Len(work) : \E idx \in 1..Len(stories) : stories[idx].id = work[n].id
     /\ \A m, n \in 1..Len(work) : m < n => work[m].id <= work[n].id
     /\ (pc \in {"locale", "slug", "name"} /\ i <= Len(stories)) =>
          \A n \in 1..Len(work) : work[n].id <= stories[i].id

\* C7 witness: a finished run over a list of which one story was selected and
\* another was named in both the skip-list and the only-list.
C7_Witness ==
  /\ pc = "exit" /\ message = "finished"
  /\ Len(stories) >= 1
  /\ \E n \in 1..Len(storyList) :
       /\ storyList[n].full_slug \in Listed(args.skipStories) \cap Listed(args.onlyStories)
       /\ ~storyList[n].is_folder
       /\ Includes(contentTypes, storyList[n].content_type)

\* The PUT calls for story id, by position in the history.
PutsOf(id) == {n \in CallsAt("put") : calls[n].id = id}

\* The DeepL calls for (story id, locale), in order.
TranslationsOf(id, locale) ==
  SelectSeq(calls, LAMBDA c : c.op = "translate" /\ c.id = id /\ c.lang = locale)

\* C2 as stated: a run that ends in the source-language abort has issued no
\* write at all (read for spaces whose fetched records carry no
\* translated_slugs_attributes list, so that every write follows a translation).
C2_AbortBeforeAnyWrite ==
  (message = "source_lang"
     /\ \A idx \in 1..Len(stories) : ~Fetched(idx).has_translated_slugs_attributes)
  => CallsAt("put") = {}

\* C2 amended: without an explicit source locale, a call that reports another
\* source language than the first one ends the run at once with exit code 1;
\* the story being translated is not written (stories finished earlier may have
\* been), and the abort happens in no other case.
C2_AbortBeforeWriteOfStory ==
  /\ message = "source_lang" =>
       /\ pc = "exit" /\ exitCode = 1
       /\ sourceLang = Null
       /\ Truthy(detectedSourceLang) /\ lastDetected # detectedSourceLang
       /\ calls[Len(calls)].op = "translate"
       /\ calls[Len(calls)].id = stories[i].id
       /\ PutsOf(stories[i].id) = {}
  /\ (sourceLang = Null /\ Truthy(detectedSourceLang)
        /\ lastDetected # detectedSourceLang) => message = "source_lang"

\* C2 witness: the abort in a later story, after an earlier one was written.
C2_Witness ==
  /\ message = "source_lang"
  /\ i > 1
  /\ CallsAt("put") # {}

\* The story has a published localized path for the locale.
HasPublished(s, locale) ==
  \E n \in 1..Len(s.localized_paths) :
    s.localized_paths[n].lang = locale /\ s.localized_paths[n].published

\* The entry the run appends to a story for a locale.
EntryFor(s, locale) ==
  [lang |-> locale, slug |-> slugify(TranslateText(s.slug, locale)),
   name |-> TranslateText(s.name, locale)]

EntriesFor(idx, locale) == SelectSeq(Appended(idx), LAMBDA e : e.lang = locale)

\* The locale iteration (idx, jj) of the processing loop has ended.
Completed(idx, jj) == idx < i \/ (idx = i /\ jj < j)

\* C3 as stated, read at the end of a run: for every story the run reached
\* (and that carries localized_paths) and every locale, a published path
\* without --overwrite means no call and no entry, and every other case means
\* the two calls and one entry.
C3_DecisionAtExit ==
  pc = "exit" =>
    \A idx \in 1..Len(stories) : \A jj \in 1..Len(locales) :
      (idx <= i /\ Fetched(idx).has_localized_paths) =>
        IF HasPublished(Fetched(idx), locales[jj]) /\ ~args.overwrite
          THEN /\ TranslationsOf(stories[idx].id, locales[jj]) = <<>>
               /\ EntriesFor(idx, locales[jj]) = <<>>
          ELSE /\ Len(TranslationsOf(stories[idx].id, locales[jj])) = 2
               /\ Len(EntriesFor(idx, locales[jj])) = 1

\* C3 amended: the decision holds for every locale iteration that ended; a
\* skipped locale never has a call or an entry; an iteration that did not end
\* (the run was aborted in it, or before it) has appended nothing.
C3_Decision ==
  \A idx \in 1..Len(stories) : \A jj \in 1..Len(locales) :
    LET id == stories[idx].id
        loc == locales[jj]
        trs == TranslationsOf(id, loc)
    IN IF Fetched(idx).has_localized_paths /\ HasPublished(Fetched(idx), loc)
          /\ ~args.overwrite
         THEN trs = <<>> /\ EntriesFor(idx, loc) = <<>>
         ELSE IF Completed(idx, jj)
           THEN /\ Len(trs) = 2
                /\ trs[1].what = "slug" /\ trs[2].what = "name"
                /\ EntriesFor(idx, loc) = <<EntryFor(Fetched(idx), loc)>>
           ELSE /\ EntriesFor(idx, loc) = <<>>
                /\ Len(trs) <= 2
                /\ trs # <<>> => (idx = i /\ jj = j /\ trs[1].what = "slug")

\* C3 witness: a finished run that translated an unpublished existing
\* translation and skipped a published one of the same story.
C3_Witness ==
  /\ pc = "exit" /\ message = "finished"
  /\ ~args.overwrite
  /\ \E idx \in 1..Len(stories) :
       /\ \E n \in 1..Len(stories[idx].localized_paths) :
            /\ ~stories[idx].localized_paths[n].published
            /\ Len(EntriesFor(idx, stories[idx].localized_paths[n].lang)) = 1
       /\ \E jj \in 1..Len(locales) :
            /\ HasPublished(stories[idx], locales[jj])
            /\ TranslationsOf(stories[idx].id, locales[jj]) = <<>>

\* The entries a complete pass over the locale list appends to story idx.
ExpectedEntries(idx) ==
  LET kept == SelectSeq(locales,
                LAMBDA l : ~(HasPublished(Fetched(idx), l) /\ ~args.overwrite))
  IN [n \in 1..Len(kept) |-> EntryFor(Fetched(idx), kept[n])]

\* C8 as stated, read at the end of a run: outside dry-run every story with an
\* appended entry has exactly one write.
C8_OneWriteAtExit ==
  (pc = "exit" /\ ~args.dryRun) =>
    \A idx \in 1..Len(stories) :
      Len(Appended(idx)) >= 1 => Cardinality(PutsOf(stories[idx].id)) = 1

\* C8 amended: outside dry-run a story whose locale loop has ended with at
\* least one appended entry has exactly one write, issued after its last locale
\* and before any call for a later story; the payload carries the fetched
\* entries followed by the appended ones in locale order, and the publish
\* marker exactly when --publish is set. A story in whose locale loop the run
\* was aborted has none.
C8_OneWritePerStory ==
  \A idx \in 1..Len(stories) :
    LET id == stories[idx].id
        puts == PutsOf(id)
    IN /\ Cardinality(puts) <= 1
       /\ (idx < i /\ ~args.dryRun /\ Len(Appended(idx)) >= 1) => Cardinality(puts) = 1
       /\ puts # {} => idx < i
       /\ \A p \in puts :
            /\ calls[p].story = <<stories[idx]>>
            /\ calls[p].story[1].translated_slugs_attributes =
                 Fetched(idx).translated_slugs_attributes \o ExpectedEntries(idx)
            /\ calls[p].publish = args.publish
            /\ \A n \in CallsAt("translate") :
                 IF n < p THEN calls[n].id <= id ELSE calls[n].id > id

\* C8 witness: a finished live run with --publish whose write carries an entry
\* the record already had, then the entries for de and fr.
C8_Witness ==
  /\ pc = "exit" /\ message = "finished"
  /\ args.publish
  /\ \E p \in CallsAt("put") :
       /\ Len(calls[p].story[1].translated_slugs_attributes) = 3
       /\ calls[p].story[1].translated_slugs_attributes[1] = OldEntry
       /\ calls[p].story[1].translated_slugs_attributes[2].lang = "de"
       /\ calls[p].story[1].translated_slugs_attributes[3].lang = "fr"

\* C9: a story to which the run added no entry is not written, also when the
\* fetched record already carries a translated_slugs_attributes list (read for
\* records with localized_paths under a non-empty locale list, where every
\* locale was skipped).
C9_NoWriteWithoutNewEntry ==
  \A idx \in 1..Len(stories) :
    (Fetched(idx).has_localized_paths /\ Len(locales) > 0 /\ Len(Appended(idx)) = 0)
      => PutsOf(stories[idx].id) = {}

\* What C10 says of the stories without the localized_paths key.
NeverPassed(idx) ==
  /\ i <= idx
  /\ (i = idx => pc \notin {"slug", "name"})
  /\ \A n \in CallsAt("translate") \cup CallsAt("put") : calls[n].id < stories[idx].id
  /\ message # "finished"

\* C10 as stated: a fetched story without localized_paths always ends the run
\* with exit code 1 when it is reached, with no call for it or a later story
\* (read for records that carry no translated_slugs_attributes list either).
C10_MissingPathsAlwaysFatal ==
  \A idx \in 1..Len(stories) :
    (~stories[idx].has_localized_paths
       /\ ~Fetched(idx).has_translated_slugs_attributes) => NeverPassed(idx)

\* C10 amended: with a non-empty resolved locale list, a fetched story without
\* localized_paths ends the run with exit code 1 when it is reached, with no
\* translate and no write for it or any later story and no success summary;
\* either fatal condition ends the run with exit code 1, and an ended run
\* takes no further step.
C10_MissingPathsFatal ==
  /\ Len(locales) > 0 =>
       \A idx \in 1..Len(stories) :
         ~stories[idx].has_localized_paths => NeverPassed(idx)
  /\ message = "localized_paths" =>
       (i <= Len(stories) /\ ~stories[i].has_localized_paths)
  /\ message \in {"localized_paths", "source_lang"} => (pc = "exit" /\ exitCode = 1)
  /\ pc = "exit" => ~ENABLED Next

\* C10 witness: the run ended at the second story, which lacks the key, after
\* the first one was translated and written.
C10_Witness ==
  /\ pc = "exit" /\ exitCode = 1 /\ message = "localized_paths"
  /\ i = 2
  /\ PutsOf(stories[1].id) # {}
  /\ PutsOf(stories[2].id) = {}

====
